---- MODULE Spec2Model ----
(***************************************************************************)
(* Model of the in-memory session store of src/store.go.                   *)
(*                                                                         *)
(* Go maps and *dataItem values are references, and the code copies the    *)
(* references, never the objects.  The model keeps, for every reference    *)
(* the program holds (a slot of the table, the values field of a handle, a *)
(* local variable of a call in progress), what the reference points to,    *)
(* and two relations saying which references point to the SAME dataItem    *)
(* and to the SAME map.  A write through one reference is seen through all *)
(* the references of its class.                                            *)
(*                                                                         *)
(* Spec     : every manager / handle call runs to completion in one step   *)
(*            (sequential callers), and a sweep of gc() is one step.       *)
(* SpecConc : two goroutines each run store.Save / memoryStore.save one    *)
(*            shared-memory access at a time, in any interleaving.         *)
(* SpecLive : the gc() goroutine runs its loop one access at a time next   *)
(*            to the callers, the ticker and Close, under the fairness of  *)
(*            the ticker and of the Go scheduler.                          *)
(***************************************************************************)
EXTENDS Integers, FiniteSets, Sequences, TLC

\* ---------------------------------------------------------------- bounds
\* The clock runs over 0..MaxTime.
MaxTime == 2
\* Calls pass a TTL in 0..MaxTTL (seconds).
MaxTTL == 1
\* Number of handles the callers keep referenced at the same time.
MaxHandles == 2
\* Values a caller stores are 1..MaxVal.
MaxVal == 1

\* Session ids; 0 is "no session".
\* A UUID has UuidLen bytes (16 in the library; the text forms scale with it).
UuidLen == 2

Sids == {1, 2}
Keys == {"a", "b"}
\* Stored values; 0 stands for "key not in the map" (nil).
Vals == 1..MaxVal
\* Caller goroutines of the interleaved specification.
Procs == {1, 2}
TTLs == 0..MaxTTL
HandleIds == 1..MaxHandles

\* ------------------------------------------------------------ references
\* s.data[sid] : the *dataItem stored under sid.
T(sid) == <<"data", sid>>
\* store.values of the handle in slot h.
H(h) == <<"store", h>>
\* Locals of a save in progress in goroutine p: dt and values.
LI(p) == <<"item", p>>
LV(p) == <<"values", p>>

Refs == {T(s) : s \in Sids} \cup {H(h) : h \in HandleIds}
            \cup {LI(p) : p \in Procs} \cup {LV(p) : p \in Procs}

VARIABLES
    now,      \* the clock read by now()
    mem,      \* what every reference points to, and which references are the same
    handles,  \* the store objects the callers hold : slot -> [sid, expired]
    stopped,  \* ticker.Stop() has been called
    tickBuf,  \* number of ticks waiting in ticker.C (a channel of capacity 1)
    pc,       \* position of each caller goroutine inside a multi-step call
    loc,      \* scalar locals of each caller goroutine
    gcpc,     \* position of the gc() goroutine
    gcloc     \* locals of the gc() goroutine

vars == <<now, mem, handles, stopped, tickBuf, pc, loc, gcpc, gcloc>>

\* --------------------------------------------------------------- blanks
EmptyMap == [k \in Keys |-> 0]
\* A nil reference.
Blank == [ok |-> FALSE, expiredAt |-> 0, values |-> EmptyMap]
NoHandle == [sid |-> 0, expired |-> 0]
NoLoc == [h |-> 0, sid |-> 0, old |-> 0, expired |-> 0, ok |-> FALSE, key |-> "", val |-> 0]
NoGcLoc == [key |-> 0]

\* The one element of a one-element set.
The(S) == CHOOSE r \in S : TRUE

\* ----------------------------------------------------- reference store
\* m.ref[x]  : [ok, expiredAt, values] - x is not nil; the expiredAt of the
\*             dataItem x points to; the content of the map x leads to;
\* m.item[x] : the references that point to the same dataItem as x;
\* m.map[x]  : the references that lead to the same map as x.

\* x := nil, for every x in X.
Drop(m0, X) ==
    The({ [ref  |-> [x \in Refs |-> IF x \in X THEN Blank ELSE m.ref[x]],
           item |-> [x \in Refs |-> IF x \in X THEN {} ELSE m.item[x] \ X],
           map  |-> [x \in Refs |-> IF x \in X THEN {} ELSE m.map[x] \ X]] : m \in {m0} })

\* x := make(map[string]interface{})
NewMap(m0, x) ==
    The({ [ref  |-> [m.ref EXCEPT ![x] = [ok |-> TRUE, expiredAt |-> 0, values |-> EmptyMap]],
           item |-> m.item,
           map  |-> [m.map EXCEPT ![x] = {x}]] : m \in {Drop(m0, {x})} })

\* x := the map y leads to (x is a values field or a values local).
AliasMap(m0, x, y) ==
    The({ LET cls == (m.map[y] \ {x}) \cup {x}
          IN  [ref  |-> [m.ref EXCEPT ![x] = [ok |-> TRUE, expiredAt |-> 0,
                                              values |-> m.ref[y].values]],
               item |-> [z \in Refs |-> IF z = x THEN {} ELSE m.item[z] \ {x}],
               map  |-> [z \in Refs |-> IF z \in cls THEN cls ELSE m.map[z] \ {x}]] : m \in {m0} })

\* x := &dataItem{expiredAt: e, values: <the map y leads to>}
NewItem(m0, x, e, y) ==
    The({ LET cls == (m.map[y] \ {x}) \cup {x}
          IN  [ref  |-> [m.ref EXCEPT ![x] = [ok |-> TRUE, expiredAt |-> e,
                                              values |-> m.ref[y].values]],
               item |-> [z \in Refs |-> IF z = x THEN {x} ELSE m.item[z] \ {x}],
               map  |-> [z \in Refs |-> IF z \in cls THEN cls ELSE m.map[z] \ {x}]] : m \in {m0} })

\* x := y, both references to a dataItem (x # y).
AliasItem(m0, x, y) ==
    The({ IF ~m.ref[y].ok THEN Drop(m, {x})
          ELSE LET icls == (m.item[y] \ {x}) \cup {x}
                   mcls == (m.map[y] \ {x}) \cup {x}
               IN  [ref  |-> [m.ref EXCEPT ![x] = m.ref[y]],
                    item |-> [z \in Refs |-> IF z \in icls THEN icls ELSE m.item[z] \ {x}],
                    map  |-> [z \in Refs |-> IF z \in mcls THEN mcls ELSE m.map[z] \ {x}]] : m \in {m0} })

\* x.expiredAt = e : seen through every reference to the dataItem of x.
SetExpiredAt(m0, x, e) ==
    The({ [m EXCEPT !.ref = [z \in Refs |-> IF z \in m.item[x]
                                            THEN [m.ref[z] EXCEPT !.expiredAt = e]
                                            ELSE m.ref[z]]] : m \in {m0} })

\* A publish that copies the keys of y into the map the dataItem already has.
MergeValues(m0, x, y) ==
    The({ [m EXCEPT !.ref = [z \in Refs |->
                IF z \in m.map[x]
                THEN [m.ref[z] EXCEPT !.values =
                        [k \in Keys |-> IF m.ref[y].values[k] # 0 THEN m.ref[y].values[k] ELSE @[k]]]
                ELSE m.ref[z]]] : m \in {m0} })

\* x.values = <the map y leads to> : the dataItem of x now leads to that map.
SetValues(m0, x, y) ==
    The({ LET Z == m.item[x]
              cls == m.map[y] \cup Z
          IN  [ref  |-> [z \in Refs |-> IF z \in Z
                                        THEN [m.ref[z] EXCEPT !.values = m.ref[y].values]
                                        ELSE m.ref[z]],
               item |-> m.item,
               map  |-> [z \in Refs |-> IF z \in cls THEN cls ELSE m.map[z] \ Z]] : m \in {m0} })

\* x[key] = value (value 0: delete(x, key)) : seen through every reference
\* that leads to the map of x.
MapWrite(m0, x, key, value) ==
    The({ [m EXCEPT !.ref = [z \in Refs |-> IF z \in m.map[x]
                                            THEN [m.ref[z] EXCEPT !.values[key] = value]
                                            ELSE m.ref[z]]] : m \in {m0} })

\* ------------------------------------------------------------- helpers
\* memoryStore.data as the callers see it: sid -> the entry, if any.
data == [s \in Sids |-> mem.ref[T(s)]]
\* The local values of the handle in slot h.
values(h) == mem.ref[H(h)].values

\* store.Get(key): the value under key and whether the key is present.
Get(h, key) == IF values(h)[key] = 0 THEN <<0, FALSE>> ELSE <<values(h)[key], TRUE>>

\* item.expiredAt.Before(now())
Before(t, n) == t < n
\* A comparison that still counts the instant of expiry as live.
After_orEqual(t, n) == t >= n

\* item.expiredAt.After(now())
After(t, n) == t > n

\* The slot that receives the handle a call returns.
FreeSlots == {h \in HandleIds : ~mem.ref[H(h)].ok}
LiveHandles == HandleIds \ FreeSlots
IsNextSlot(h) == h \in FreeSlots /\ \A g \in FreeSlots : h <= g

\* newStore: the handle in slot h; vals is the reference whose map the handle
\* takes, or <<>> for nil (a fresh empty map).
newStore(m, h, vals) ==
    IF vals = <<>> THEN NewMap(m, H(h)) ELSE AliasMap(m, H(h), vals)

\* A save that also applies the handle's TTL to the entry it finds.
save_renew(m, sid, v, expired) ==
    IF m.ref[T(sid)].ok
    THEN SetExpiredAt(SetValues(m, T(sid), v), T(sid), now + expired)
    ELSE NewItem(m, T(sid), now + expired, v)

\* memoryStore.save(sid, values, expired), values being the map of reference v.
save(m, sid, v, expired) ==
    IF m.ref[T(sid)].ok
    THEN SetValues(m, T(sid), v)
    ELSE NewItem(m, T(sid), now + expired, v)

\* What Check(sid) returns.
CheckResult(sid) ==
    IF ~data[sid].ok THEN FALSE
    ELSE After(data[sid].expiredAt, now)

\* ------------------------------------------------------------------ Init
Init ==
    /\ now = 0
    /\ mem = [ref |-> [x \in Refs |-> Blank], item |-> [x \in Refs |-> {}], map |-> [x \in Refs |-> {}]]
    /\ handles = [h \in HandleIds |-> NoHandle]
    /\ stopped = FALSE
    /\ tickBuf = 0
    /\ pc = [p \in Procs |-> "idle"]
    /\ loc = [p \in Procs |-> NoLoc]
    /\ gcpc = "wait"
    /\ gcloc = NoGcLoc

\* ------------------------------------------------- environment actions
\* Time passes.
Tick ==
    /\ now < MaxTime
    /\ now' = now + 1
    /\ UNCHANGED <<mem, handles, stopped, tickBuf, pc, loc, gcpc, gcloc>>

\* The ticker delivers a tick into ticker.C unless it was stopped; a tick that
\* finds the channel full is dropped.
TickerFire ==
    /\ ~stopped
    /\ tickBuf = 0
    /\ tickBuf' = 1
    /\ UNCHANGED <<now, mem, handles, stopped, pc, loc, gcpc, gcloc>>

\* The caller drops its last reference to a handle.
Discard(h) ==
    /\ h \in LiveHandles
    /\ \A p \in Procs : loc[p].h # h
    /\ mem' = Drop(mem, {H(h)})
    /\ handles' = [handles EXCEPT ![h] = NoHandle]
    /\ UNCHANGED <<now, stopped, tickBuf, pc, loc, gcpc, gcloc>>

\* ------------------------------------------- manager calls, in one step
\* Check reads the table and the clock and writes nothing; what it returns
\* is CheckResult(sid).
Check(sid) ==
    /\ CheckResult(sid) \in BOOLEAN
    /\ UNCHANGED vars

\* A Create that materializes the table row at once.
Create_eager(sid, expired, h) ==
    /\ IsNextSlot(h)
    /\ mem' = NewItem(newStore(mem, h, <<>>), T(sid), now + expired, H(h))
    /\ handles' = [handles EXCEPT ![h] = [sid |-> sid, expired |-> expired]]
    /\ UNCHANGED <<now, stopped, tickBuf, pc, loc, gcpc, gcloc>>

Create(sid, expired, h) ==
    /\ IsNextSlot(h)
    /\ mem' = newStore(mem, h, <<>>)
    /\ handles' = [handles EXCEPT ![h] = [sid |-> sid, expired |-> expired]]
    /\ UNCHANGED <<now, stopped, tickBuf, pc, loc, gcpc, gcloc>>

\* An Update that renews only when the handle is saved.
Update_noRenew(sid, expired, h) ==
    /\ IsNextSlot(h)
    /\ mem' = newStore(mem, h, IF data[sid].ok THEN T(sid) ELSE <<>>)
    /\ handles' = [handles EXCEPT ![h] = [sid |-> sid, expired |-> expired]]
    /\ UNCHANGED <<now, stopped, tickBuf, pc, loc, gcpc, gcloc>>

Update(sid, expired, h) ==
    /\ IsNextSlot(h)
    /\ IF ~data[sid].ok
       THEN mem' = newStore(mem, h, <<>>)
       ELSE \* item.expiredAt = ...; s.data.Store(sid, item) puts the same
            \* pointer back; the handle takes item.values
            mem' = newStore(SetExpiredAt(mem, T(sid), now + expired), h, T(sid))
    /\ handles' = [handles EXCEPT ![h] = [sid |-> sid, expired |-> expired]]
    /\ UNCHANGED <<now, stopped, tickBuf, pc, loc, gcpc, gcloc>>

\* A Delete that clears the whole table.
Delete_all(sid) ==
    /\ mem' = Drop(mem, {T(s) : s \in Sids})
    /\ UNCHANGED <<now, handles, stopped, tickBuf, pc, loc, gcpc, gcloc>>

Delete(sid) ==
    /\ mem' = Drop(mem, {T(sid)})
    /\ UNCHANGED <<now, handles, stopped, tickBuf, pc, loc, gcpc, gcloc>>

\* A Refresh that forgets delete(oldsid).
Refresh_keepOld(oldsid, sid, expired, h) ==
    /\ IsNextSlot(h)
    /\ IF ~data[oldsid].ok
       THEN mem' = newStore(mem, h, <<>>)
       ELSE mem' = NewItem(newStore(mem, h, T(oldsid)), T(sid), now + expired, T(oldsid))
    /\ handles' = [handles EXCEPT ![h] = [sid |-> sid, expired |-> expired]]
    /\ UNCHANGED <<now, stopped, tickBuf, pc, loc, gcpc, gcloc>>

\* A Refresh that stores an entry under sid also when oldsid has none.
Refresh_alwaysStore(oldsid, sid, expired, h) ==
    /\ IsNextSlot(h)
    /\ IF ~data[oldsid].ok
       THEN mem' = NewItem(newStore(mem, h, <<>>), T(sid), now + expired, H(h))
       ELSE mem' = Drop(NewItem(newStore(mem, h, T(oldsid)), T(sid), now + expired, T(oldsid)),
                        {T(oldsid)})
    /\ handles' = [handles EXCEPT ![h] = [sid |-> sid, expired |-> expired]]
    /\ UNCHANGED <<now, stopped, tickBuf, pc, loc, gcpc, gcloc>>

Refresh(oldsid, sid, expired, h) ==
    /\ IsNextSlot(h)
    /\ IF ~data[oldsid].ok
       THEN mem' = newStore(mem, h, <<>>)
       ELSE \* newItem.values is item.values: the handle takes that map; then
            \* Store(sid, newItem), then delete(oldsid)
            mem' = Drop(NewItem(newStore(mem, h, T(oldsid)), T(sid), now + expired, T(oldsid)),
                        {T(oldsid)})
    /\ handles' = [handles EXCEPT ![h] = [sid |-> sid, expired |-> expired]]
    /\ UNCHANGED <<now, stopped, tickBuf, pc, loc, gcpc, gcloc>>

Close ==
    /\ stopped' = TRUE
    /\ UNCHANGED <<now, mem, handles, tickBuf, pc, loc, gcpc, gcloc>>

\* -------------------------------------------- handle calls, in one step
Set(h, key, value) ==
    /\ h \in LiveHandles
    /\ mem' = MapWrite(mem, H(h), key, value)
    /\ UNCHANGED <<now, handles, stopped, tickBuf, pc, loc, gcpc, gcloc>>

DeleteKey(h, key) ==
    /\ h \in LiveHandles
    /\ mem' = MapWrite(mem, H(h), key, 0)
    /\ UNCHANGED <<now, handles, stopped, tickBuf, pc, loc, gcpc, gcloc>>

Save(h) ==
    /\ h \in LiveHandles
    /\ mem' = save(mem, handles[h].sid, H(h), handles[h].expired)
    /\ UNCHANGED <<now, handles, stopped, tickBuf, pc, loc, gcpc, gcloc>>

\* A Flush that clears the handle and does not save.
Flush_localOnly(h) ==
    /\ h \in LiveHandles
    /\ mem' = NewMap(mem, H(h))
    /\ UNCHANGED <<now, handles, stopped, tickBuf, pc, loc, gcpc, gcloc>>

Flush(h) ==
    /\ h \in LiveHandles
    /\ mem' = save(NewMap(mem, H(h)), handles[h].sid, H(h), handles[h].expired)
    /\ UNCHANGED <<now, handles, stopped, tickBuf, pc, loc, gcpc, gcloc>>

\* ------------------------------------------------ the sweep, in one step
\* The entries the Range of gc() deletes.
Expired == {s \in Sids : data[s].ok /\ Before(data[s].expiredAt, now)}

\* gc(): the ticker fires, the loop receives the tick and runs the whole Range.
Sweep ==
    /\ ~stopped
    /\ tickBuf = 0
    /\ gcpc = "wait"
    /\ mem' = Drop(mem, {T(s) : s \in Expired})
    /\ UNCHANGED <<now, handles, stopped, tickBuf, pc, loc, gcpc, gcloc>>

Next ==
    \/ Tick
    \/ Sweep
    \/ \E h \in HandleIds : Discard(h)
    \/ \E sid \in Sids : Check(sid)
    \/ \E sid \in Sids : Delete(sid)
    \/ \E sid \in Sids, e \in TTLs, h \in HandleIds : Create(sid, e, h)
    \/ \E sid \in Sids, e \in TTLs, h \in HandleIds : Update(sid, e, h)
    \/ \E o \in Sids, sid \in Sids, e \in TTLs, h \in HandleIds : Refresh(o, sid, e, h)
    \/ \E h \in HandleIds, k \in Keys, v \in Vals : Set(h, k, v)
    \/ \E h \in HandleIds, k \in Keys : DeleteKey(h, k)
    \/ \E h \in HandleIds : Save(h)
    \/ \E h \in HandleIds : Flush(h)

Spec == Init /\ [][Next]_vars

\* =====================================================================
\* store.Save, one shared-memory access per step (goroutine p)
\* =====================================================================
AllIdle == \A p \in Procs : pc[p] = "idle"

\* store.Save: values := s.values under the read lock, then the call of
\* s.mstore.save(s.sid, values, s.expired).
SaveBegin(p, h) ==
    /\ pc[p] = "idle"
    /\ h \in LiveHandles
    /\ mem' = AliasMap(mem, LV(p), H(h))
    /\ loc' = [loc EXCEPT ![p] = [NoLoc EXCEPT !.h = h, !.sid = handles[h].sid,
                                                !.expired = handles[h].expired]]
    /\ pc' = [pc EXCEPT ![p] = "save_load"]
    /\ UNCHANGED <<now, handles, stopped, tickBuf, gcpc, gcloc>>

\* save: dt, ok := s.data.Load(sid)
SaveLoad(p) ==
    /\ pc[p] = "save_load"
    /\ mem' = AliasItem(mem, LI(p), T(loc[p].sid))
    /\ loc' = [loc EXCEPT ![p].ok = data[loc[p].sid].ok]
    /\ pc' = [pc EXCEPT ![p] = IF data[loc[p].sid].ok THEN "save_set" ELSE "save_store"]
    /\ UNCHANGED <<now, handles, stopped, tickBuf, gcpc, gcloc>>

\* save: dt.(*dataItem).values = values; return
SaveSetValues(p) ==
    /\ pc[p] = "save_set"
    /\ mem' = Drop(SetValues(mem, LI(p), LV(p)), {LI(p), LV(p)})
    /\ pc' = [pc EXCEPT ![p] = "done"]
    /\ UNCHANGED <<now, handles, stopped, tickBuf, loc, gcpc, gcloc>>

\* save: s.data.Store(sid, newDataItem(sid, values, expired))
SaveStore(p) ==
    /\ pc[p] = "save_store"
    /\ mem' = Drop(NewItem(mem, T(loc[p].sid), now + loc[p].expired, LV(p)), {LI(p), LV(p)})
    /\ pc' = [pc EXCEPT ![p] = "done"]
    /\ UNCHANGED <<now, handles, stopped, tickBuf, loc, gcpc, gcloc>>

\* The call in progress (Save; Refresh and Delete(key) further down) has
\* returned to its caller.  A goroutine starts no further call while the call
\* of the other one is still running: the calls run two at a time.
SaveReturn(p) ==
    /\ pc[p] = "done"
    /\ \A q \in Procs : pc[q] \in {"idle", "done"}
    /\ pc' = [pc EXCEPT ![p] = "idle"]
    /\ loc' = [loc EXCEPT ![p] = NoLoc]
    /\ UNCHANGED <<now, mem, handles, stopped, tickBuf, gcpc, gcloc>>

\* The callers prepare handles and entries while no Save is running, then the
\* two goroutines run their Saves against each other.
NextConc ==
    \/ \E sid \in Sids, e \in TTLs, h \in HandleIds : AllIdle /\ Create(sid, e, h)
    \/ \E sid \in Sids, e \in TTLs, h \in HandleIds : AllIdle /\ Update(sid, e, h)
    \/ \E h \in HandleIds, k \in Keys, v \in Vals : AllIdle /\ Set(h, k, v)
    \/ \E sid \in Sids : AllIdle /\ Delete(sid)
    \/ \E h \in HandleIds : AllIdle /\ Discard(h)
    \/ \E p \in Procs, h \in HandleIds : SaveBegin(p, h)
    \/ \E p \in Procs : SaveLoad(p)
    \/ \E p \in Procs : SaveSetValues(p)
    \/ \E p \in Procs : SaveStore(p)
    \/ \E p \in Procs : SaveReturn(p)

SpecConc == Init /\ [][NextConc]_vars

\* =====================================================================
\* gc(), one access per step, with the ticker and Close
\* =====================================================================
\* The keys the Range has still to reach: the skip list is walked in key
\* order, reading the links as they are when it gets there.
Ahead == {s \in Sids : data[s].ok /\ s > gcloc.key}

\* for range s.ticker.C : a tick is received, the Range starts.
GcReceive ==
    /\ gcpc = "wait"
    /\ tickBuf = 1
    /\ tickBuf' = 0
    /\ gcpc' = "range"
    /\ gcloc' = NoGcLoc
    /\ UNCHANGED <<now, mem, handles, stopped, pc, loc>>

\* Range calls the function on the next key: item.expiredAt.Before(now());
\* past the last key the Range returns and the loop waits for a tick again.
GcVisit ==
    /\ gcpc = "range"
    /\ IF Ahead = {}
       THEN gcpc' = "wait" /\ gcloc' = NoGcLoc
       ELSE LET key == CHOOSE s \in Ahead : \A o \in Ahead : s <= o
            IN  /\ gcloc' = [key |-> key]
                /\ gcpc' = IF Before(data[key].expiredAt, now) THEN "delete" ELSE "range"
    /\ UNCHANGED <<now, mem, handles, stopped, tickBuf, pc, loc>>

\* A sweep that finds the expired entry and leaves it in the table.
GcDelete_skip ==
    /\ gcpc = "delete"
    /\ gcpc' = "range"
    /\ UNCHANGED <<now, mem, handles, stopped, tickBuf, pc, loc, gcloc>>

\* s.data.Delete(key)
GcDelete ==
    /\ gcpc = "delete"
    /\ mem' = Drop(mem, {T(gcloc.key)})
    /\ gcpc' = "range"
    /\ UNCHANGED <<now, handles, stopped, tickBuf, pc, loc, gcloc>>

GcStep == GcReceive \/ GcVisit \/ GcDelete

NextLive ==
    \/ Tick
    \/ TickerFire
    \/ Close
    \/ GcReceive
    \/ GcVisit
    \/ GcDelete
    \/ \E sid \in Sids, e \in TTLs, h \in HandleIds : Create(sid, e, h)
    \/ \E sid \in Sids, e \in TTLs, h \in HandleIds : Update(sid, e, h)
    \/ \E h \in HandleIds : Save(h)
    \/ \E sid \in Sids : Delete(sid)
    \/ \E h \in HandleIds : Discard(h)

\* The runtime timer keeps delivering ticks until Stop, and the scheduler keeps
\* running the gc() goroutine; the callers and the clock owe nothing.
SpecLive == Init /\ [][NextLive]_vars /\ WF_vars(TickerFire) /\ WF_vars(GcStep)

\* =====================================================================
\* memoryStore.Refresh, one table access per step (goroutine p), next to
\* the Saves of SpecConc
\* =====================================================================
\* Refresh: dt, ok := s.data.Load(oldsid)
RefreshLoad(p, oldsid, sid, expired) ==
    /\ pc[p] = "idle"
    /\ mem' = AliasItem(mem, LI(p), T(oldsid))
    /\ loc' = [loc EXCEPT ![p] = [NoLoc EXCEPT !.old = oldsid, !.sid = sid,
                                                !.expired = expired, !.ok = data[oldsid].ok]]
    /\ pc' = [pc EXCEPT ![p] = IF data[oldsid].ok THEN "rf_store" ELSE "rf_return"]
    /\ UNCHANGED <<now, handles, stopped, tickBuf, gcpc, gcloc>>

\* Refresh: newItem := newDataItem(sid, item.values, expired);
\* s.data.Store(sid, newItem).  From here on the local reference stands for
\* newItem; item is not used again.
RefreshStore(p) ==
    /\ pc[p] = "rf_store"
    /\ mem' = AliasItem(NewItem(mem, T(loc[p].sid), now + loc[p].expired, LI(p)),
                        LI(p), T(loc[p].sid))
    /\ pc' = [pc EXCEPT ![p] = "rf_delete"]
    /\ UNCHANGED <<now, handles, stopped, tickBuf, loc, gcpc, gcloc>>

\* Refresh: s.delete(oldsid)
RefreshDelete(p) ==
    /\ pc[p] = "rf_delete"
    /\ mem' = Drop(mem, {T(loc[p].old)})
    /\ pc' = [pc EXCEPT ![p] = "rf_return"]
    /\ UNCHANGED <<now, handles, stopped, tickBuf, loc, gcpc, gcloc>>

\* Refresh: return newStore(ctx, s, sid, expired, newItem.values), or with nil
\* values when oldsid had no entry.
RefreshReturn(p, h) ==
    /\ pc[p] = "rf_return"
    /\ IsNextSlot(h)
    /\ mem' = Drop(newStore(mem, h, IF loc[p].ok THEN LI(p) ELSE <<>>), {LI(p)})
    /\ handles' = [handles EXCEPT ![h] = [sid |-> loc[p].sid, expired |-> loc[p].expired]]
    /\ loc' = [loc EXCEPT ![p].h = h]
    /\ pc' = [pc EXCEPT ![p] = "done"]
    /\ UNCHANGED <<now, stopped, tickBuf, gcpc, gcloc>>

\* No goroutine but p is inside a Save / inside a Refresh.
NoOtherSave(p) == \A q \in Procs \ {p} : pc[q] \notin {"save_load", "save_set", "save_store"}
NoOtherRefresh(p) == \A q \in Procs \ {p} : pc[q] \notin {"rf_store", "rf_delete", "rf_return"}

\* The callers prepare handles while no call is running; then one goroutine
\* runs a Save and the other a Refresh against each other, step by step.
\* The clock stands still and the TTLs play no part: they are all 0.
NextRot ==
    \/ \E sid \in Sids, h \in HandleIds : AllIdle /\ Create(sid, 0, h)
    \/ \E h \in HandleIds, k \in Keys, v \in Vals : AllIdle /\ Set(h, k, v)
    \/ \E h \in HandleIds : AllIdle /\ Discard(h)
    \/ \E p \in Procs, h \in HandleIds : NoOtherSave(p) /\ SaveBegin(p, h)
    \/ \E p \in Procs : SaveLoad(p)
    \/ \E p \in Procs : SaveSetValues(p)
    \/ \E p \in Procs : SaveStore(p)
    \/ \E p \in Procs, o \in Sids, sid \in Sids :
            NoOtherRefresh(p) /\ RefreshLoad(p, o, sid, 0)
    \/ \E p \in Procs : RefreshStore(p)
    \/ \E p \in Procs : RefreshDelete(p)
    \/ \E p \in Procs, h \in HandleIds : RefreshReturn(p, h)
    \/ \E p \in Procs : SaveReturn(p)

SpecRot == Init /\ [][NextRot]_vars

\* =====================================================================
\* The typed getters, over values of every dynamic type
\* =====================================================================
\* uuid.Nil
NilUUID == [i \in 1..UuidLen |-> 0]
\* A UUID to store and to spell.
SomeUUID == [i \in 1..UuidLen |-> 16 * i + 10 + i]

HexDigits == <<"0", "1", "2", "3", "4", "5", "6", "7", "8", "9", "a", "b", "c", "d", "e", "f">>
IsHex(c) == \E i \in 1..16 : HexDigits[i] = c
HexVal(c) == (CHOOSE i \in 1..16 : HexDigits[i] = c) - 1

\* The bytes of u in hex, two digits a byte.
Hex(u) ==
    [i \in 1..(2 * UuidLen) |->
        IF i % 2 = 1 THEN HexDigits[(u[(i + 1) \div 2] \div 16) + 1]
                     ELSE HexDigits[(u[i \div 2] % 16) + 1]]

\* UUID.String(): the hex digits with a dash after the first byte.
String(u) == SubSeq(Hex(u), 1, 2) \o <<"-">> \o SubSeq(Hex(u), 3, 2 * UuidLen)

\* The bytes spelled by 2 * UuidLen hex digits, or the error.
HexDecode(t) ==
    IF \A i \in 1..Len(t) : IsHex(t[i])
    THEN <<[i \in 1..UuidLen |-> 16 * HexVal(t[2 * i - 1]) + HexVal(t[2 * i])], TRUE>>
    ELSE <<NilUUID, FALSE>>

\* uuid.Parse(t), <<id, err == nil>>: the dashed form and the plain hex form
\* (the urn: and {} forms wrap the dashed one and are left out).
Parse(t) ==
    IF Len(t) = 2 * UuidLen + 1
    THEN IF t[3] = "-" THEN HexDecode(SubSeq(t, 1, 2) \o SubSeq(t, 4, Len(t)))
                       ELSE <<NilUUID, FALSE>>
    ELSE IF Len(t) = 2 * UuidLen THEN HexDecode(t)
    ELSE <<NilUUID, FALSE>>

\* uuid.FromBytes(b), <<id, err == nil>>
FromBytes(b) == IF Len(b) = UuidLen THEN <<b, TRUE>> ELSE <<NilUUID, FALSE>>

\* The interface{} values a caller stores: the map keeps the index of the
\* value, Dyn gives its concrete type and what it holds.  Strings are
\* sequences of characters.
Dyn == <<
    [type |-> "int",    val |-> 5],
    [type |-> "int",    val |-> 0],
    [type |-> "string", val |-> <<"n">>],
    [type |-> "string", val |-> <<>>],
    [type |-> "string", val |-> String(SomeUUID)],
    [type |-> "string", val |-> Hex(SomeUUID)],
    [type |-> "string", val |-> String(SomeUUID) \o <<"0">>],
    [type |-> "string", val |-> [i \in 1..(2 * UuidLen) |-> "g"]],
    [type |-> "bool",   val |-> TRUE],
    [type |-> "bool",   val |-> FALSE],
    [type |-> "uuid",   val |-> SomeUUID],
    [type |-> "bytes",  val |-> SomeUUID],
    [type |-> "bytes",  val |-> SomeUUID \o <<7>>],
    [type |-> "nil",    val |-> 0] >>
DynVals == DOMAIN Dyn

\* A GetInt that converts a bool instead of refusing it.
GetIntResult_coerce(h, key) ==
    LET g == Get(h, key)
    IN  IF g[2]
        THEN IF Dyn[g[1]].type = "int" THEN <<Dyn[g[1]].val, TRUE>>
             ELSE IF Dyn[g[1]].type = "bool" THEN <<IF Dyn[g[1]].val THEN 1 ELSE 0, TRUE>>
             ELSE <<0, FALSE>>
        ELSE <<0, FALSE>>

\* What GetString / GetBool / GetInt return: v, ok := s.Get(key) and, if ok,
\* the type assertion, which yields the zero value and false when it fails.
GetStringResult(h, key) ==
    LET g == Get(h, key)
    IN  IF g[2]
        THEN IF Dyn[g[1]].type = "string" THEN <<Dyn[g[1]].val, TRUE>> ELSE <<<<>>, FALSE>>
        ELSE <<<<>>, FALSE>>

GetBoolResult(h, key) ==
    LET g == Get(h, key)
    IN  IF g[2]
        THEN IF Dyn[g[1]].type = "bool" THEN <<Dyn[g[1]].val, TRUE>> ELSE <<FALSE, FALSE>>
        ELSE <<FALSE, FALSE>>

GetIntResult(h, key) ==
    LET g == Get(h, key)
    IN  IF g[2]
        THEN IF Dyn[g[1]].type = "int" THEN <<Dyn[g[1]].val, TRUE>> ELSE <<0, FALSE>>
        ELSE <<0, FALSE>>

\* What GetUUID returns: the type switch, falling through to uuid.Nil, false.
GetUUIDResult(h, key) ==
    LET g == Get(h, key)
    IN  IF ~g[2] THEN <<NilUUID, FALSE>>
        ELSE LET t == Dyn[g[1]]
             IN  CASE t.type = "uuid"   -> <<t.val, TRUE>>
                   [] t.type = "string" -> IF Parse(t.val)[2] THEN Parse(t.val)
                                           ELSE <<NilUUID, FALSE>>
                   [] t.type = "bytes"  -> IF FromBytes(t.val)[2] THEN FromBytes(t.val)
                                           ELSE <<NilUUID, FALSE>>
                   [] OTHER             -> <<NilUUID, FALSE>>

\* The getters read under the read lock and write nothing.
GetString(h, key) ==
    /\ h \in LiveHandles
    /\ GetStringResult(h, key)[2] \in BOOLEAN
    /\ UNCHANGED vars

GetBool(h, key) ==
    /\ h \in LiveHandles
    /\ GetBoolResult(h, key)[2] \in BOOLEAN
    /\ UNCHANGED vars

GetInt(h, key) ==
    /\ h \in LiveHandles
    /\ GetIntResult(h, key)[2] \in BOOLEAN
    /\ UNCHANGED vars

GetUUID(h, key) ==
    /\ h \in LiveHandles
    /\ GetUUIDResult(h, key)[2] \in BOOLEAN
    /\ UNCHANGED vars

NextGet ==
    \/ \E sid \in Sids, h \in HandleIds : Create(sid, 0, h)
    \/ \E h \in HandleIds : Discard(h)
    \/ \E h \in HandleIds, k \in Keys, v \in DynVals : Set(h, k, v)
    \/ \E h \in HandleIds, k \in Keys : DeleteKey(h, k)
    \/ \E h \in HandleIds, k \in Keys : GetString(h, k)
    \/ \E h \in HandleIds, k \in Keys : GetBool(h, k)
    \/ \E h \in HandleIds, k \in Keys : GetInt(h, k)
    \/ \E h \in HandleIds, k \in Keys : GetUUID(h, k)

SpecGet == Init /\ [][NextGet]_vars

\* =====================================================================
\* store.Delete(key), one critical section per step (goroutine p), next
\* to the Sets of other goroutines
\* =====================================================================
\* Delete: s.RLock(); v, ok := s.values[key]; s.RUnlock()
DelRead(p, h, key) ==
    /\ pc[p] = "idle"
    /\ h \in LiveHandles
    /\ loc' = [loc EXCEPT ![p] = [NoLoc EXCEPT !.h = h, !.key = key,
                                                !.val = Get(h, key)[1], !.ok = Get(h, key)[2]]]
    /\ pc' = [pc EXCEPT ![p] = IF Get(h, key)[2] THEN "del_remove" ELSE "done"]
    /\ UNCHANGED <<now, mem, handles, stopped, tickBuf, gcpc, gcloc>>

\* Delete: if ok { s.Lock(); delete(s.values, key); s.Unlock() }; return v
DelRemove(p) ==
    /\ pc[p] = "del_remove"
    /\ mem' = MapWrite(mem, H(loc[p].h), loc[p].key, 0)
    /\ pc' = [pc EXCEPT ![p] = "done"]
    /\ UNCHANGED <<now, handles, stopped, tickBuf, loc, gcpc, gcloc>>

\* The int values of Dyn: what the Sets of this specification write.
IntVals == {v \in DynVals : Dyn[v].type = "int"}

\* Goroutines call Delete(key) on the handles while others call Set, which
\* is one critical section; the key's value is read and removed in two.
NextDel ==
    \/ \E sid \in Sids, h \in HandleIds : Create(sid, 0, h)
    \/ \E h \in HandleIds : Discard(h)
    \/ \E h \in HandleIds, k \in Keys, v \in IntVals : Set(h, k, v)
    \/ \E p \in Procs, h \in HandleIds, k \in Keys : DelRead(p, h, k)
    \/ \E p \in Procs : DelRemove(p)
    \/ \E p \in Procs : SaveReturn(p)

SpecDel == Init /\ [][NextDel]_vars

\* =====================================================================
\* Claims checked under Spec
\* =====================================================================

\* The step hands a new handle to the caller, in slot h.
Returns(h) == handles[h] = NoHandle /\ handles'[h] # NoHandle
\* The step is a call on a handle: the clock and the set of handles stay.
OnHandle == now' = now /\ handles' = handles

\* C1: in every reachable state Check(id) returns true exactly when the table
\* holds an entry for id and now < its expiresAt; an entry whose expiresAt has
\* been reached is reported false although no sweep has removed it.
C1_CheckIffLive ==
    \A s \in Sids : CheckResult(s) <=> (data[s].ok /\ now < data[s].expiredAt)

\* An entry still in the table at the very instant its expiresAt is reached,
\* which Check reports false.
C1_Witness ==
    \E s \in Sids : data[s].ok /\ now > 0 /\ now = data[s].expiredAt /\ ~CheckResult(s)

\* C2: after Save the table holds an entry under the handle's sessionId whose
\* values are exactly the handle's local values (no key missing, none left
\* over), and the entry of every other id is as it was.
C2_SaveWholesale ==
    [][\A h \in HandleIds :
        (OnHandle /\ Save(h)) =>
            LET sid == handles[h].sid
            IN  /\ data'[sid].ok
                /\ data'[sid].values = values(h)
                /\ \A o \in Sids \ {sid} : data'[o] = data[o]]_vars

\* An entry published by a handle holding exactly {a:1, b:1}, next to another
\* entry that holds something else.
C2_Witness ==
    \E h \in LiveHandles, o \in Sids :
        /\ o # handles[h].sid
        /\ data[handles[h].sid].ok
        /\ H(h) \in mem.map[T(handles[h].sid)]
        /\ values(h) = [k \in Keys |-> 1]
        /\ data[o].ok
        /\ data[o].values # values(h)

\* C3 as stated: Set and Delete(key) on a handle leave the values of every
\* table entry and of every other handle unchanged.
C3_SetIsLocal ==
    [][\A h \in HandleIds, k \in Keys :
        (OnHandle /\ ((\E v \in Vals : Set(h, k, v)) \/ DeleteKey(h, k))) =>
            /\ \A s \in Sids : data'[s] = data[s]
            /\ \A g \in HandleIds \ {h} : values(g)' = values(g)]_vars

\* C4: Update(id, ttl) on an id that has an entry sets the entry's expiresAt to
\* now + ttl at once, keeps its values, and returns a handle bound to id that
\* reads the entry's values; Check(id) is then true exactly when ttl > 0.
C4_UpdateRenews ==
    [][\A s \in Sids, e \in TTLs, h \in HandleIds :
        (Returns(h) /\ data[s].ok /\ Update(s, e, h)) =>
            /\ data'[s].ok
            /\ data'[s].expiredAt = now + e
            /\ data'[s].values = data[s].values
            /\ handles'[h].sid = s
            /\ values(h)' = data[s].values
            /\ CheckResult(s)' <=> (e > 0)]_vars

\* An entry with content that is live at a time no first TTL reaches (an entry
\* is first given now + ttl with ttl <= MaxTTL), held by a handle that reads
\* its values.
C4_Witness ==
    \E s \in Sids, h \in LiveHandles :
        /\ handles[h].sid = s
        /\ data[s].ok
        /\ data[s].values # EmptyMap
        /\ values(h) = data[s].values
        /\ now >= MaxTTL
        /\ data[s].expiredAt = now + handles[h].expired
        /\ CheckResult(s)

\* C5: Refresh(old, new, ttl) with ttl > 0, old having an entry with values V
\* and new # old: the handle returned is bound to new and holds V, the table
\* has no entry for old, and has an entry for new with values V and
\* expiresAt = now + ttl; Check(old) is false and Check(new) true.
C5_RefreshRotates ==
    [][\A o \in Sids, s \in Sids, e \in TTLs, h \in HandleIds :
        (Returns(h) /\ data[o].ok /\ o # s /\ e > 0 /\ Refresh(o, s, e, h)) =>
            /\ handles'[h].sid = s
            /\ values(h)' = data[o].values
            /\ ~data'[o].ok
            /\ ~CheckResult(o)'
            /\ data'[s].ok
            /\ data'[s].values = data[o].values
            /\ data'[s].expiredAt = now + e
            /\ CheckResult(s)']_vars

\* Only the rotated-to id has an entry, it has content and is live, and a
\* handle bound to it reads the same content.
C5_Witness ==
    \E o \in Sids, s \in Sids, h \in LiveHandles :
        /\ o # s
        /\ ~data[o].ok
        /\ data[s].ok
        /\ handles[h].sid = s
        /\ handles[h].expired > 0
        /\ data[s].values # EmptyMap
        /\ values(h) = data[s].values
        /\ data[s].expiredAt = now + handles[h].expired
        /\ CheckResult(s)

\* C6 as stated: Refresh(old, new, ttl) always leaves an entry under new with
\* expiresAt = now + ttl, with old's values or with no values when old has no
\* entry.
C6_RefreshAlwaysStores ==
    [][\A o \in Sids, s \in Sids, e \in TTLs, h \in HandleIds :
        (Returns(h) /\ Refresh(o, s, e, h)) =>
            /\ data'[s].ok
            /\ data'[s].expiredAt = now + e
            /\ data'[s].values = (IF data[o].ok THEN data[o].values ELSE EmptyMap)]_vars

\* C6 amended: Refresh(old, new, ttl) with new # old leaves an entry under new
\* with expiresAt = now + ttl and old's values when old has an entry; when old
\* has no entry it leaves the whole table as it was and only returns a handle
\* bound to new with an empty value set.
C6_RefreshStoresIfOld ==
    [][\A o \in Sids, s \in Sids, e \in TTLs, h \in HandleIds :
        (Returns(h) /\ Refresh(o, s, e, h)) =>
            /\ (data[o].ok /\ o # s) =>
                    /\ data'[s].ok
                    /\ data'[s].expiredAt = now + e
                    /\ data'[s].values = data[o].values
            /\ ~data[o].ok =>
                    /\ data' = data
                    /\ handles'[h].sid = s
                    /\ values(h)' = EmptyMap]_vars

\* A handle with an empty value set bound to an id that has no entry, while
\* the other id has none either: what Refresh on an absent old id leaves.
C6_Witness ==
    \E h \in LiveHandles :
        /\ \A s \in Sids : ~data[s].ok
        /\ values(h) = EmptyMap
        /\ mem.map[H(h)] = {H(h)}

\* C9 as stated: an entry whose expiresAt has passed and that no sweep has
\* removed is treated as absent by Check, Update and Refresh: Check is false,
\* and Update(id) / Refresh(id, new) neither hand its values to the handle they
\* return nor make Check(id) / Check(new) true.
C9_ExpiredIsAbsent ==
    [][\A o \in Sids, s \in Sids, e \in TTLs, h \in HandleIds :
        (Returns(h) /\ data[o].ok /\ Before(data[o].expiredAt, now)
            /\ (Update(o, e, h) \/ Refresh(o, s, e, h))) =>
            /\ H(h) \notin mem'.map[T(o)] \cup mem'.map[T(s)]
            /\ values(h)' = EmptyMap
            /\ ~CheckResult(o)'
            /\ (CheckResult(s)' => CheckResult(s))]_vars

\* C10: Create(id, ttl) for any id, and Update(id, ttl) for an id without an
\* entry, leave the whole table unchanged and return a new handle bound to id
\* with an empty value set of its own; the other handles are as they were.
C10_CreateLeavesTable ==
    [][\A s \in Sids, e \in TTLs, h \in HandleIds :
        (Returns(h) /\ (Create(s, e, h) \/ (~data[s].ok /\ Update(s, e, h)))) =>
            /\ data' = data
            /\ handles'[h] = [sid |-> s, expired |-> e]
            /\ values(h)' = EmptyMap
            /\ mem'.map[H(h)] = {H(h)}
            /\ \A g \in HandleIds \ {h} : handles'[g] = handles[g] /\ values(g)' = values(g)]_vars

\* A fresh handle for an id whose entry already exists with content, the
\* handle being empty and sharing nothing.
C10_Witness ==
    \E h \in LiveHandles :
        /\ data[handles[h].sid].ok
        /\ data[handles[h].sid].values # EmptyMap
        /\ values(h) = EmptyMap
        /\ mem.map[H(h)] = {H(h)}

\* C11: Delete(id) leaves no entry for id, so Check(id) is false, and every
\* other entry as it was; on an id without an entry it changes nothing, and a
\* second Delete(id) changes nothing more.
C11_DeleteRemoves ==
    [][\A s \in Sids :
        (OnHandle /\ Delete(s)) =>
            /\ ~data'[s].ok
            /\ ~CheckResult(s)'
            /\ \A o \in Sids \ {s} : data'[o] = data[o]
            /\ ~data[s].ok => mem' = mem
            /\ Drop(mem', {T(s)}) = mem']_vars

\* Before any entry can have expired: two handles of one id share a map with
\* content that no entry holds any more, while the other id keeps its entry.
C11_Witness ==
    \E s \in Sids, o \in Sids, h \in LiveHandles, g \in LiveHandles :
        /\ now = 0 /\ s # o /\ h # g
        /\ handles[h].sid = s /\ handles[g].sid = s
        /\ ~data[s].ok
        /\ mem.map[H(h)] = {H(h), H(g)}
        /\ values(h) # EmptyMap
        /\ data[o].ok


\* C12: once Flush returns, the handle's local values are empty, Get on it
\* finds no key, and the table holds an entry for the handle's sessionId whose
\* value set is empty.
C12_FlushClears ==
    [][\A h \in HandleIds :
        (OnHandle /\ Flush(h)) =>
            LET sid == handles[h].sid
            IN  /\ values(h)' = EmptyMap
                /\ \A k \in Keys : Get(h, k)' = <<0, FALSE>>
                /\ data'[sid].ok
                /\ data'[sid].values = EmptyMap]_vars

\* The entry leads to the empty map of a handle, while another handle of the
\* same id still holds the earlier content in a map of its own.
C12_Witness ==
    \E h \in LiveHandles, g \in LiveHandles :
        /\ h # g
        /\ handles[h].sid = handles[g].sid
        /\ data[handles[h].sid].ok
        /\ H(h) \in mem.map[T(handles[h].sid)]
        /\ values(h) = EmptyMap
        /\ values(g) # EmptyMap
        /\ mem.map[H(g)] = {H(g)}

\* C15: Save on a handle whose sessionId has an entry replaces that entry's
\* values and leaves its expiresAt as it was; Save without an entry inserts one
\* with expiresAt = now + the handle's TTL, now being the time of the Save.
C15_SaveKeepsExpiry ==
    [][\A h \in HandleIds :
        (OnHandle /\ Save(h)) =>
            LET sid == handles[h].sid
            IN  /\ data'[sid].ok
                /\ data'[sid].values = values(h)
                /\ data'[sid].expiredAt =
                        (IF data[sid].ok THEN data[sid].expiredAt
                                         ELSE now + handles[h].expired)]_vars

\* At time 0 an entry leads to the map of a handle whose TTL is positive, and
\* yet expires at 0: the handle's TTL was not applied.
C15_Witness ==
    \E h \in LiveHandles :
        /\ now = 0
        /\ handles[h].expired > 0
        /\ data[handles[h].sid].ok
        /\ H(h) \in mem.map[T(handles[h].sid)]
        /\ values(h) # EmptyMap
        /\ data[handles[h].sid].expiredAt = 0

\* C19 as stated: Refresh(id, id, ttl) on an id that has an entry keeps the
\* session: the table still holds an entry for id with the same values and
\* expiresAt = now + ttl, so Check(id) is true for ttl > 0.
C19_RefreshSameIdKeeps ==
    [][\A s \in Sids, e \in TTLs, h \in HandleIds :
        (Returns(h) /\ data[s].ok /\ Refresh(s, s, e, h)) =>
            /\ data'[s].ok
            /\ data'[s].values = data[s].values
            /\ data'[s].expiredAt = now + e
            /\ (e > 0 => CheckResult(s)')]_vars

\* C20 as stated: Save on a handle as Create(id, ttl) returns it, ttl > 0,
\* makes Check(id) true whatever entry id had before, and the entry is out of
\* the sweep's reach at every time before the time of Save + ttl.
C20_CreateSaveIsLive ==
    [][\A h \in HandleIds :
        (OnHandle /\ handles[h].expired > 0 /\ mem.map[H(h)] = {H(h)} /\ Save(h)) =>
            LET sid == handles[h].sid
            IN  /\ CheckResult(sid)'
                /\ data'[sid].values = values(h)
                /\ \A t \in now..(now + handles[h].expired - 1) :
                        ~Before(data'[sid].expiredAt, t)]_vars

\* =====================================================================
\* Claims checked under SpecConc
\* =====================================================================

\* Both goroutines have finished a Save, on two handles of one session id
\* that hold different value sets.
BothSaved(p, q) ==
    /\ p # q
    /\ pc[p] = "done" /\ pc[q] = "done"
    /\ loc[p].h # loc[q].h
    /\ loc[p].sid = loc[q].sid
    /\ values(loc[p].h) # values(loc[q].h)

\* The entry of the session of p and q holds the values of one of their two
\* handles, whole: it leads to that handle's map.
HoldsOneOf(p, q) ==
    /\ data[loc[p].sid].ok
    /\ \E w \in {p, q} :
        /\ data[loc[w].sid].values = values(loc[w].h)
        /\ H(loc[w].h) \in mem.map[T(loc[w].sid)]

\* C7: when the Saves of two handles of one id with different value sets have
\* run interleaved and both are complete, the entry's values are the values of
\* one of the two handles, never a mixture.  And each write of a Save leaves
\* the entry with the writer's values, so what remains is the last writer's.
C7_LastWriterWins ==
    [][/\ \A p \in Procs, q \in Procs : (BothSaved(p, q) => HoldsOneOf(p, q))'
       /\ \A p \in Procs :
            (pc[p] \in {"save_set", "save_store"} /\ pc'[p] = "done") =>
                /\ data'[loc[p].sid].ok
                /\ data'[loc[p].sid].values = mem'.ref[H(loc[p].h)].values]_vars

\* Both Saves found no entry (so both Loads came before either Store), the
\* handles hold different value sets with a key each, and the entry holds the
\* values of one of them.
C7_Witness ==
    \E p \in Procs, q \in Procs :
        /\ BothSaved(p, q)
        /\ ~loc[p].ok /\ ~loc[q].ok
        /\ values(loc[p].h) # EmptyMap /\ values(loc[q].h) # EmptyMap
        /\ data[loc[p].sid].values = values(loc[p].h)

\* =====================================================================
\* Claims checked under SpecLive
\* =====================================================================

\* The entry of s is stale: in the table with expiresAt strictly before now,
\* while Close has not been called.
Stale(s) == data[s].ok /\ Before(data[s].expiredAt, now) /\ ~stopped

\* C8: while Close has not been called and the loop keeps ticking, an entry
\* whose expiresAt is strictly before now does not stay: it is removed, by
\* the loop alone if no caller renews or deletes it.
C8_SweepReclaims ==
    \A s \in Sids : Stale(s) ~> ~Stale(s)

\* The loop has found an expired entry and is about to delete it.
C8_Witness ==
    /\ gcpc = "delete"
    /\ Stale(gcloc.key)

\* The loop waits for a tick on an empty channel that no ticker feeds any
\* more: it can never take another step.
Blocked == gcpc = "wait" /\ tickBuf = 0 /\ ~ENABLED TickerFire

\* C13 as stated: once Close has been called the loop starts no further sweep,
\* and it is not left blocked on the next tick: it terminates.
C13_CloseStopsLoop ==
    /\ [][stopped => ~GcReceive]_vars
    /\ [](stopped => ~Blocked)

\* C16 as stated: the sweep removes an entry only if its expiresAt is strictly
\* before now at the moment of the removal, also when callers renew or insert
\* the entry while the sweep runs.
C16_SweepRemovesOnlyExpired ==
    [][GcDelete =>
        (data[gcloc.key].ok => Before(data[gcloc.key].expiredAt, now))]_vars


\* =====================================================================
\* Claims checked under SpecGet
\* =====================================================================

\* The value stored under key k of handle h has concrete type ty.
Holds(h, k, ty) == values(h)[k] # 0 /\ Dyn[values(h)[k]].type = ty
\* What the value stored under key k of handle h holds.
Held(h, k) == Dyn[values(h)[k]].val

\* C14: GetString, GetInt and GetBool return (v, true) exactly when the key is
\* present with a value of that concrete type, and (zero value, false)
\* otherwise; GetUUID returns (u, true) for a UUID, a string that parses as one
\* or a raw byte form of the right length, and (nil UUID, false) otherwise.
C14_TypedGetters ==
    \A h \in LiveHandles, k \in Keys :
        /\ GetStringResult(h, k) = (IF Holds(h, k, "string") THEN <<Held(h, k), TRUE>>
                                                               ELSE <<<<>>, FALSE>>)
        /\ GetIntResult(h, k) = (IF Holds(h, k, "int") THEN <<Held(h, k), TRUE>>
                                                         ELSE <<0, FALSE>>)
        /\ GetBoolResult(h, k) = (IF Holds(h, k, "bool") THEN <<Held(h, k), TRUE>>
                                                           ELSE <<FALSE, FALSE>>)
        /\ GetUUIDResult(h, k) =
                (IF Holds(h, k, "uuid") THEN <<Held(h, k), TRUE>>
                 ELSE IF Holds(h, k, "string") /\ Held(h, k) \in {String(SomeUUID), Hex(SomeUUID)}
                      THEN <<SomeUUID, TRUE>>
                 ELSE IF Holds(h, k, "bytes") /\ Len(Held(h, k)) = UuidLen
                      THEN <<Held(h, k), TRUE>>
                 ELSE <<NilUUID, FALSE>>)

\* Set("a", 5) and Set("b", <the text of a UUID>): GetString("a") is ("", false),
\* GetInt("a") is (5, true), GetUUID("b") is the UUID and GetBool("b") fails.
C14_Witness ==
    \E h \in LiveHandles :
        /\ Holds(h, "a", "int") /\ Held(h, "a") = 5
        /\ GetStringResult(h, "a") = <<<<>>, FALSE>>
        /\ GetIntResult(h, "a") = <<5, TRUE>>
        /\ Holds(h, "b", "string")
        /\ GetUUIDResult(h, "b") = <<SomeUUID, TRUE>>
        /\ GetBoolResult(h, "b") = <<FALSE, FALSE>>

\* =====================================================================
\* Claims checked under SpecRot
\* =====================================================================

\* Goroutine p has completed a Save on a handle bound to old and goroutine q
\* a Refresh(old, new) that found old's entry, new # old.
SavedAndRotated(p, q) ==
    /\ pc[p] = "done" /\ loc[p].old = 0
    /\ pc[q] = "done" /\ loc[q].old # 0 /\ loc[q].ok
    /\ loc[p].sid = loc[q].old
    /\ loc[q].sid # loc[q].old

\* The values of handle h are what the entry of sid holds.
InTable(h, sid) == data[sid].ok /\ data[sid].values = values(h)

\* The saved values are in the table once both calls are complete.
SaveNotLost ==
    \A p \in Procs, q \in Procs :
        SavedAndRotated(p, q) =>
            InTable(loc[p].h, loc[q].sid) \/ InTable(loc[p].h, loc[q].old)

\* C17 as stated: a Refresh(old, new) interleaved with a Save on a handle bound
\* to old ends as one of the two sequential orders does - the saved values are
\* in the entry under new, or in a re-created entry under old - and at no
\* moment of the Refresh do old and new both have their entry.
C17_RefreshAtomic ==
    /\ SaveNotLost
    /\ \A q \in Procs :
            (pc[q] = "rf_delete" /\ loc[q].sid # loc[q].old) =>
                ~(data[loc[q].old].ok /\ data[loc[q].sid].ok)

\* =====================================================================
\* Claims checked under SpecDel
\* =====================================================================

\* C18 as stated: Delete(key) returns the value it removes, also when Set and
\* Delete run on the handle from other goroutines: at the removal the key
\* holds the value the call is about to return.
C18_DeleteReturnsRemoved ==
    [][\A p \in Procs :
        DelRemove(p) => values(loc[p].h)[loc[p].key] = loc[p].val]_vars

====
